---- MODULE Spec2Model ----
(***************************************************************************)
(* Model of the Solidity source-name resolver                              *)
(* (packages/buidler-core/src/internal/solidity/resolver.ts).              *)
(*                                                                         *)
(* Strings are sequences of one-character strings, so that the substring   *)
(* operations the resolver uses (includes, indexOf, startsWith, slice,     *)
(* substr) and the path functions (normalize, join, dirname) are computed  *)
(* as the code computes them.  Paths follow the POSIX flavour of node's    *)
(* path module.  The filesystem is a set of regular files, each a sequence *)
(* of path segments below "/"; directories are the proper prefixes.        *)
(***************************************************************************)
EXTENDS Integers, Sequences, FiniteSets, TLC

VARIABLES
  files,            \* regular files on disk, as segment sequences
  versions,         \* package.json path |-> its "version" field
  caseInsensitive,  \* whether the host filesystem ignores letter case
  held,             \* the ResolvedFile the caller holds (importer), or NoFile
  last              \* the last call: operation, arguments, outcome

vars == <<files, versions, caseInsensitive, held, last>>

----------------------------------------------------------------------------
\* Bounds

MaxUp == 2        \* import strings climb with at most MaxUp "../" prefixes
MaxNameLen == 3   \* source names enumerated character by character

----------------------------------------------------------------------------
\* Characters and literal strings

Sl == <<"/">>
Bs == <<"\\">>
Dot == <<".">>
DotDot == <<".", ".">>
At == <<"@">>
SOL == <<".", "s", "o", "l">>
NODE_MODULES == <<"n", "o", "d", "e", "_", "m", "o", "d", "u", "l", "e", "s">>
PACKAGE_JSON == <<"p", "a", "c", "k", "a", "g", "e", ".", "j", "s", "o", "n">>
BUIDLER == <<"@", "n", "o", "m", "i", "c", "l", "a", "b", "s", "/",
             "b", "u", "i", "d", "l", "e", "r">>

Undefined == <<"undefined">>

UpperCase == {"A", "B", "C", "D", "E", "F", "G", "H", "I", "J", "K", "L", "M",
              "N", "O", "P", "Q", "R", "S", "T", "U", "V", "W", "X", "Y", "Z"}
LowerCase == {"a", "b", "c", "d", "e", "f", "g", "h", "i", "j", "k", "l", "m",
              "n", "o", "p", "q", "r", "s", "t", "u", "v", "w", "x", "y", "z"}
Letters == UpperCase \cup LowerCase

LowerOf == ("B" :> "b") @@ ("C" :> "c") @@ ("L" :> "l") @@ ("X" :> "x")

ToLower(c) == IF c \in DOMAIN LowerOf THEN LowerOf[c] ELSE c
ToLowerCase(s) == [i \in 1..Len(s) |-> ToLower(s[i])]

----------------------------------------------------------------------------
\* JavaScript string operations (indices are 0-based, as in the source)

MinOf(S) == CHOOSE x \in S : \A y \in S : x <= y
MaxOf(S) == CHOOSE x \in S : \A y \in S : x >= y

StartsWith(s, p) == Len(s) >= Len(p) /\ SubSeq(s, 1, Len(p)) = p

IndexOfFrom(s, sub, from) ==
  LET hits == {i \in from..(Len(s) - Len(sub)) : SubSeq(s, i + 1, i + Len(sub)) = sub}
  IN IF hits = {} THEN -1 ELSE MinOf(hits)

IndexOf(s, sub) == IndexOfFrom(s, sub, 0)

Includes(s, sub) == IndexOf(s, sub) # -1

\* s.slice(0, end): a negative end counts from the end of the string
Slice0(s, end) ==
  LET e == IF end < 0
           THEN (IF Len(s) + end < 0 THEN 0 ELSE Len(s) + end)
           ELSE (IF end > Len(s) THEN Len(s) ELSE end)
  IN SubSeq(s, 1, e)

Substr(s, start) == SubSeq(s, start + 1, Len(s))

RECURSIVE Split(_)
Split(s) ==
  LET i == IndexOf(s, Sl)
  IN IF i = -1 THEN <<s>>
     ELSE <<SubSeq(s, 1, i)>> \o Split(SubSeq(s, i + 2, Len(s)))

RECURSIVE JoinSegs(_)
JoinSegs(segs) ==
  IF segs = <<>> THEN <<>>
  ELSE IF Len(segs) = 1 THEN segs[1]
  ELSE segs[1] \o Sl \o JoinSegs(Tail(segs))

NonEmpty(seg) == seg # <<>>
Segs(p) == SelectSeq(Split(p), NonEmpty)

----------------------------------------------------------------------------
\* node's path module (posix) and the slash package

isAbsolute(p) == Len(p) > 0 /\ p[1] = "/"

slash(p) == [i \in 1..Len(p) |-> IF p[i] = "\\" THEN "/" ELSE p[i]]

RECURSIVE normalizeString(_, _, _)
normalizeString(segs, res, allowAboveRoot) ==
  IF segs = <<>> THEN res
  ELSE LET h == Head(segs)
           t == Tail(segs)
       IN IF h = <<>> \/ h = Dot THEN normalizeString(t, res, allowAboveRoot)
          ELSE IF h = DotDot
               THEN IF res # <<>> /\ res[Len(res)] # DotDot
                    THEN normalizeString(t, SubSeq(res, 1, Len(res) - 1), allowAboveRoot)
                    ELSE IF allowAboveRoot
                         THEN normalizeString(t, Append(res, DotDot), allowAboveRoot)
                         ELSE normalizeString(t, res, allowAboveRoot)
               ELSE normalizeString(t, Append(res, h), allowAboveRoot)

normalize(p) ==
  IF p = <<>> THEN Dot
  ELSE LET abs == isAbsolute(p)
           trailing == p[Len(p)] = "/"
           r == JoinSegs(normalizeString(Split(p), <<>>, ~abs))
       IN IF r = <<>>
          THEN (IF abs THEN Sl ELSE IF trailing THEN Dot \o Sl ELSE Dot)
          ELSE (IF abs THEN Sl ELSE <<>>) \o r \o (IF trailing THEN Sl ELSE <<>>)

join(a, b) ==
  IF a = <<>> /\ b = <<>> THEN Dot
  ELSE IF a = <<>> THEN normalize(b)
  ELSE IF b = <<>> THEN normalize(a)
  ELSE normalize(a \o Sl \o b)

dirname(p) ==
  IF p = <<>> THEN Dot
  ELSE LET hasRoot == p[1] = "/"
           \* 0-based positions >= 1 holding a character other than "/"
           names == {i \in 1..(Len(p) - 1) : p[i + 1] # "/"}
           j == IF names = {} THEN 0 ELSE MaxOf(names)
           seps == {i \in 1..(j - 1) : p[i + 1] = "/"}
           end == IF seps = {} THEN -1 ELSE MaxOf(seps)
       IN IF end = -1 THEN (IF hasRoot THEN Sl ELSE Dot)
          ELSE IF hasRoot /\ end = 1 THEN Sl \o Sl
          ELSE SubSeq(p, 1, end)

\* path.relative(from, to) for a path `to` at or below the directory `from`
relative(from, to) ==
  IF to = from THEN <<>> ELSE Substr(to, Len(from) + 1)

----------------------------------------------------------------------------
\* The host filesystem

IsPrefix(d, f) == Len(d) <= Len(f) /\ SubSeq(f, 1, Len(d)) = d

IsDirectory(d) == \E f \in files : Len(f) > Len(d) /\ IsPrefix(d, f)

Readdir(d) == {f[Len(d) + 1] : f \in {g \in files : Len(g) > Len(d) /\ IsPrefix(d, g)}}

NameMatches(onDisk, asked) ==
  \/ onDisk = asked
  \/ caseInsensitive /\ ToLowerCase(onDisk) = ToLowerCase(asked)

\* the on-disk entries (files or directories) the host finds for a path
Lookup(segs) ==
  {e \in {SubSeq(f, 1, Len(segs)) : f \in {g \in files : Len(g) >= Len(segs)}} :
     \A i \in 1..Len(segs) : NameMatches(e[i], segs[i])}

Stat(p) ==
  LET found == Lookup(Segs(p))
      trailing == Len(p) > 1 /\ p[Len(p)] = "/"
  IN IF found = {} THEN "ENOENT"
     ELSE IF (CHOOSE e \in found : TRUE) \in files
          THEN (IF trailing THEN "ENOTDIR" ELSE "file")
          ELSE "directory"

pathExists(p) == Stat(p) \in {"file", "directory"}

\* true-case-path: walks the segments, matching each against readdir of the
\* directory reached so far, ignoring case
RECURSIVE iterate(_, _, _)
iterate(realPath, matched, segments) ==
  IF segments = <<>> THEN [ok |-> TRUE, matched |-> matched]
  ELSE IF realPath \in files THEN [ok |-> FALSE, message |-> "ENOTDIR"]
  ELSE LET m == {e \in Readdir(realPath) : ToLowerCase(e) = ToLowerCase(Head(segments))}
       IN IF m = {}
          THEN [ok |-> FALSE, message |-> "no matching file exists"]
          ELSE LET e == CHOOSE x \in m : TRUE
               IN iterate(Append(realPath, e), Append(matched, e), Tail(segments))

trueCasePath(filePath, basePath) ==
  LET base == Lookup(Segs(normalize(basePath)))
  IN IF base = {} THEN [ok |-> FALSE, message |-> "ENOENT"]
     ELSE LET r == iterate(CHOOSE e \in base : TRUE, <<>>, Segs(normalize(filePath)))
          IN IF r.ok
             THEN [ok |-> TRUE,
                   path |-> IF r.matched = <<>> THEN normalize(basePath)
                            ELSE normalize(basePath) \o Sl \o JoinSegs(r.matched)]
             ELSE r

----------------------------------------------------------------------------
\* Errors and results

RawErrors == {"ENOENT", "ENOTDIR", "EISDIR"}

BuidlerError(descriptor, args) == [tag |-> "error", error |-> descriptor, args |-> args]
IoError(code) == [tag |-> "error", error |-> code, args |-> <<>>]
isBuidlerError(e) == e.tag = "error" /\ e.error \notin RawErrors

Ok == [tag |-> "ok"]
Returned(file) == [tag |-> "file", file |-> file]

R(out, io) == [out |-> out, io |-> io]
After(io, r) == [r EXCEPT !.io = io \o r.io]

NoFile == [tag |-> "none"]

----------------------------------------------------------------------------
\* ResolvedFile

ResolvedFile(globalName, absolutePath, libraryName, libraryVersion) ==
  [globalName |-> globalName,
   absolutePath |-> absolutePath,
   library |-> IF libraryName # Undefined /\ libraryVersion # Undefined
               THEN {[name |-> libraryName, version |-> libraryVersion]}
               ELSE {}]

getVersionedName(f) ==
  f.globalName \o
    (IF f.library # {}
     THEN <<"@", "v">> \o (CHOOSE l \in f.library : TRUE).version
     ELSE <<>>)

----------------------------------------------------------------------------
\* Resolver

projectRoot == <<"/", "p">>

\* __dirname of the compiled resolver inside a global installation
resolverDirname ==
  <<"/", "g", "/">> \o NODE_MODULES \o Sl \o BUIDLER \o
  <<"/", "i", "n", "t", "e", "r", "n", "a", "l", "/", "s", "o", "l">>

_normalizePath(p) == slash(normalize(p))

\* _getUriScheme with the pattern anchored at the start of the string
_getUriScheme_Anchored(s) ==
  LET RunEnd(i) == MinOf({j \in (i + 1)..Len(s) : j = Len(s) \/ s[j + 1] \notin Letters})
      starts == {i \in {0} :
                   /\ Len(s) > 0
                   /\ s[i + 1] \in Letters
                   /\ StartsWith(Substr(s, RunEnd(i)), <<":", "/", "/">>)}
  IN IF starts = {} THEN Undefined
     ELSE SubSeq(s, MinOf(starts) + 1, RunEnd(MinOf(starts)))

\* /([a-zA-Z]+):\/\// : the leftmost run of letters directly followed by "://"
_getUriScheme(s) ==
  LET RunEnd(i) == MinOf({j \in (i + 1)..Len(s) : j = Len(s) \/ s[j + 1] \notin Letters})
      starts == {i \in 0..(Len(s) - 1) :
                   /\ s[i + 1] \in Letters
                   /\ StartsWith(Substr(s, RunEnd(i)), <<":", "/", "/">>)}
  IN IF starts = {} THEN Undefined
     ELSE SubSeq(s, MinOf(starts) + 1, RunEnd(MinOf(starts)))

_isRelativeImport(imported) ==
  StartsWith(imported, Dot \o Sl) \/ StartsWith(imported, DotDot \o Sl)

_resolveNodeModulesFileFromProjectRoot(fileName) ==
  LET root == Segs(projectRoot)
      Candidate(k) == Sl \o JoinSegs(SubSeq(root, 1, k) \o <<NODE_MODULES>>) \o Sl \o fileName
      hits == {k \in 0..Len(root) : Stat(Candidate(k)) = "file"}
  IN IF hits = {} THEN [ok |-> FALSE]
     ELSE [ok |-> TRUE, path |-> Candidate(MaxOf(hits))]

_getLibraryName(sourceName) ==
  IF StartsWith(sourceName, At)
  THEN Slice0(sourceName, IndexOfFrom(sourceName, Sl, IndexOf(sourceName, Sl) + 1))
  ELSE Slice0(sourceName, IndexOf(sourceName, Sl))

\* _validateSourceNameExistenceAndCasing comparing the names without regard
\* to letter case
_validateSourceNameExistenceAndCasing_IgnoringCase(sourceName, fromDir, isLibrary) ==
  LET tcp == trueCasePath(sourceName, fromDir)
  IN IF ~tcp.ok
     THEN IF tcp.message = "no matching file exists"
          THEN R(BuidlerError(IF isLibrary THEN "LIBRARY_FILE_NOT_FOUND" ELSE "FILE_NOT_FOUND",
                              [file |-> sourceName]),
                 <<"trueCasePath">>)
          ELSE R(IoError(tcp.message), <<"trueCasePath">>)
     ELSE LET trueCaseSourceName == slash(relative(normalize(fromDir), tcp.path))
          IN IF ToLowerCase(trueCaseSourceName) # ToLowerCase(sourceName)
             THEN R(BuidlerError("WRONG_SOURCE_NAME_CASING",
                                 [incorrect |-> sourceName, correct |-> trueCaseSourceName]),
                    <<"trueCasePath">>)
             ELSE R(Ok, <<"trueCasePath">>)

_validateSourceNameExistenceAndCasing(sourceName, fromDir, isLibrary) ==
  LET tcp == trueCasePath(sourceName, fromDir)
  IN IF ~tcp.ok
     THEN IF tcp.message = "no matching file exists"
          THEN R(BuidlerError(IF isLibrary THEN "LIBRARY_FILE_NOT_FOUND" ELSE "FILE_NOT_FOUND",
                              [file |-> sourceName]),
                 <<"trueCasePath">>)
          ELSE R(IoError(tcp.message), <<"trueCasePath">>)
     ELSE LET trueCaseSourceName == slash(relative(normalize(fromDir), tcp.path))
          IN IF trueCaseSourceName # sourceName
             THEN R(BuidlerError("WRONG_SOURCE_NAME_CASING",
                                 [incorrect |-> sourceName, correct |-> trueCaseSourceName]),
                    <<"trueCasePath">>)
             ELSE R(Ok, <<"trueCasePath">>)

_resolveFile(sourceName, absolutePath, libraryName, libraryVersion) ==
  LET st == Stat(absolutePath)
  IN IF st = "file"
     THEN R(Returned(ResolvedFile(sourceName, absolutePath, libraryName, libraryVersion)),
            <<"readFile", "stat">>)
     ELSE R(IoError(IF st = "directory" THEN "EISDIR" ELSE st), <<"readFile">>)

_resolveLocalSourceName(sourceName) ==
  LET v == _validateSourceNameExistenceAndCasing(sourceName, projectRoot, FALSE)
  IN IF v.out # Ok THEN v
     ELSE After(v.io, _resolveFile(sourceName, join(projectRoot, sourceName),
                                   Undefined, Undefined))

readJson(packagePath) ==
  IF Stat(packagePath) = "file"
  THEN [ok |-> TRUE, version |-> versions[CHOOSE e \in Lookup(Segs(packagePath)) : TRUE]]
  ELSE [ok |-> FALSE, message |-> IF Stat(packagePath) = "directory" THEN "EISDIR"
                                  ELSE Stat(packagePath)]

_resolveLibrarySourceName(sourceName) ==
  LET libraryName == _getLibraryName(sourceName)
      found == _resolveNodeModulesFileFromProjectRoot(join(libraryName, PACKAGE_JSON))
  IN IF ~found.ok /\ libraryName # BUIDLER
     THEN R(BuidlerError("LIBRARY_NOT_INSTALLED", [library |-> libraryName]),
            <<"require.resolve">>)
     ELSE LET buidlerCoreDir == join(join(resolverDirname, DotDot), DotDot)
              packagePath == IF found.ok THEN found.path
                             ELSE join(buidlerCoreDir, PACKAGE_JSON)
              nodeModulesPath == dirname(dirname(packagePath))
              v == _validateSourceNameExistenceAndCasing(sourceName, nodeModulesPath, TRUE)
              packageInfo == readJson(packagePath)
          IN IF v.out # Ok THEN After(<<"require.resolve">>, v)
             ELSE IF ~packageInfo.ok
                  THEN R(IoError(packageInfo.message),
                         <<"require.resolve", "trueCasePath", "readJson">>)
                  ELSE After(<<"require.resolve", "trueCasePath", "readJson">>,
                             _resolveFile(sourceName, join(nodeModulesPath, sourceName),
                                          libraryName, packageInfo.version))

_isSourceNameFromLocalSourceFile(sourceName) ==
  IF Includes(sourceName, NODE_MODULES) THEN R(FALSE, <<>>)
  ELSE R(pathExists(join(projectRoot, sourceName)), <<"pathExists">>)

\* resolveSourceName with the backslash check moved ahead of the leading-dot
\* check
resolveSourceName_BackslashFirst(sourceName) ==
  IF isAbsolute(sourceName)
  THEN R(BuidlerError("INVALID_SOURCE_NAME_ABSOLUTE_PATH", [name |-> sourceName]), <<>>)
  ELSE IF slash(sourceName) # sourceName
  THEN R(BuidlerError("INVALID_SOURCE_NAME_BACKSLASHES", [name |-> sourceName]), <<>>)
  ELSE IF StartsWith(sourceName, Dot)
  THEN R(BuidlerError("INVALID_SOURCE_NAME_RELATIVE_PATH", [name |-> sourceName]), <<>>)
  ELSE IF _normalizePath(sourceName) # sourceName
  THEN R(BuidlerError("INVALID_SOURCE_NOT_NORMALIZED", [name |-> sourceName]), <<>>)
  ELSE LET local == _isSourceNameFromLocalSourceFile(sourceName)
       IN IF local.out
          THEN After(local.io, _resolveLocalSourceName(sourceName))
          ELSE After(local.io, _resolveLibrarySourceName(sourceName))

\* resolveSourceName resolving the canonical form of a name that is not in
\* normal form, where the resolver rejects the name
resolveSourceName_Repairing(sourceName) ==
  IF isAbsolute(sourceName)
  THEN R(BuidlerError("INVALID_SOURCE_NAME_ABSOLUTE_PATH", [name |-> sourceName]), <<>>)
  ELSE IF StartsWith(sourceName, Dot)
  THEN R(BuidlerError("INVALID_SOURCE_NAME_RELATIVE_PATH", [name |-> sourceName]), <<>>)
  ELSE IF slash(sourceName) # sourceName
  THEN R(BuidlerError("INVALID_SOURCE_NAME_BACKSLASHES", [name |-> sourceName]), <<>>)
  ELSE IF _isSourceNameFromLocalSourceFile(_normalizePath(sourceName)).out
       THEN After(<<"pathExists">>, _resolveLocalSourceName(_normalizePath(sourceName)))
       ELSE After(_isSourceNameFromLocalSourceFile(_normalizePath(sourceName)).io,
                  _resolveLibrarySourceName(_normalizePath(sourceName)))

resolveSourceName(sourceName) ==
  IF isAbsolute(sourceName)
  THEN R(BuidlerError("INVALID_SOURCE_NAME_ABSOLUTE_PATH", [name |-> sourceName]), <<>>)
  ELSE IF StartsWith(sourceName, Dot)
  THEN R(BuidlerError("INVALID_SOURCE_NAME_RELATIVE_PATH", [name |-> sourceName]), <<>>)
  ELSE IF slash(sourceName) # sourceName
  THEN R(BuidlerError("INVALID_SOURCE_NAME_BACKSLASHES", [name |-> sourceName]), <<>>)
  ELSE IF _normalizePath(sourceName) # sourceName
  THEN R(BuidlerError("INVALID_SOURCE_NOT_NORMALIZED", [name |-> sourceName]), <<>>)
  ELSE LET local == _isSourceNameFromLocalSourceFile(sourceName)
       IN IF local.out
          THEN After(local.io, _resolveLocalSourceName(sourceName))
          ELSE After(local.io, _resolveLibrarySourceName(sourceName))

_relativeImportToSourceName(from, imported) ==
  LET sourceName == _normalizePath(join(dirname(from.globalName), imported))
      nmIndex == IndexOf(sourceName, NODE_MODULES \o Sl)
  IN IF from.library = {} /\ nmIndex # -1
     THEN [tag |-> "name", name |-> Substr(sourceName, nmIndex + Len(NODE_MODULES) + 1)]
     ELSE IF StartsWith(sourceName, DotDot \o Sl)
          THEN IF from.library = {}
               THEN BuidlerError("INVALID_IMPORT_OUTSIDE_OF_PROJECT",
                                 [from |-> from.globalName, imported |-> imported])
               ELSE BuidlerError("ILLEGAL_IMPORT",
                                 [from |-> from.globalName, imported |-> imported])
          ELSE [tag |-> "name", name |-> sourceName]

\* the catch clause of resolveImport
catchClause(error, from, imported) ==
  IF isBuidlerError(error) /\ error.error \in {"FILE_NOT_FOUND", "LIBRARY_FILE_NOT_FOUND"}
  THEN BuidlerError("IMPORTED_FILE_NOT_FOUND",
                    [imported |-> imported, from |-> from.globalName])
  ELSE IF isBuidlerError(error) /\ error.error = "WRONG_CASING"
  THEN BuidlerError("INVALID_IMPORT_WRONG_CASING",
                    [imported |-> imported, from |-> from.globalName])
  ELSE error

NoCall == [tag |-> "nocall"]

\* resolveImport throws before resolveSourceName is called
Rejected(e) == [out |-> e, io |-> <<>>, sourceName |-> Undefined, inner |-> NoCall]

\* resolveImport returns the promise of resolveSourceName(sourceName), which
\* settles with r
Delegated(sourceName, r) ==
  [out |-> r.out, io |-> r.io, sourceName |-> sourceName, inner |-> r.out]

\* The try block awaits only _relativeImportToSourceName.  Both calls of
\* resolveSourceName are `return this.resolveSourceName(...)`: the promise is
\* returned without await, so the function has left the try block when the
\* promise settles and a rejection does not pass through the catch clause.
tryBlock(translated, from, imported) ==
  IF translated.tag = "error"
  THEN Rejected(catchClause(translated, from, imported))
  ELSE Delegated(translated.name, resolveSourceName(translated.name))

resolveImport(from, imported) ==
  IF _getUriScheme(imported) # Undefined
  THEN Rejected(BuidlerError("INVALID_IMPORT_PROTOCOL",
                             [from |-> from.globalName, imported |-> imported,
                              protocol |-> _getUriScheme(imported)]))
  ELSE IF slash(imported) # imported
  THEN Rejected(BuidlerError("INVALID_IMPORT_BACKSLASH",
                             [from |-> from.globalName, imported |-> imported]))
  ELSE IF isAbsolute(imported)
  THEN Rejected(BuidlerError("INVALID_IMPORT_ABSOLUTE_PATH",
                             [from |-> from.globalName, imported |-> imported]))
  ELSE tryBlock(IF ~_isRelativeImport(imported)
                THEN [tag |-> "name", name |-> _normalizePath(imported)]
                ELSE _relativeImportToSourceName(from, imported),
                from, imported)

----------------------------------------------------------------------------
\* Project layouts and call arguments

sP == <<"p">>
sG == <<"g">>
sA == <<"a">>
sX == <<"x">>
sU == <<"u">>
sLib == <<"l", "i", "b">>
sOlib == <<"o", "l", "i", "b">>
sNolib == <<"n", "o", "l", "i", "b">>
sScope == <<"@", "s">>
sXnm == <<"x">> \o NODE_MODULES
fB == <<"b">> \o SOL
fC == <<"c">> \o SOL
fD == <<"d">> \o SOL
fL == <<"L">> \o SOL
fl == <<"l">> \o SOL
fM == <<"m">> \o SOL
fX == <<"X">> \o SOL
fx == <<"x">> \o SOL
fY == <<"y">> \o SOL
fZ == <<"z">> \o SOL

V123 == <<"1", ".", "2", ".", "3">>
V2 == <<"2">>
V3 == <<"3">>

PkgLib == <<sP, NODE_MODULES, sLib, PACKAGE_JSON>>
PkgOlib == <<sP, NODE_MODULES, sOlib, PACKAGE_JSON>>
PkgScoped == <<sP, NODE_MODULES, sScope, sLib, PACKAGE_JSON>>
PkgUp == <<NODE_MODULES, sU, PACKAGE_JSON>>
PkgBuidler == <<sG, NODE_MODULES>> \o Segs(BUIDLER) \o <<PACKAGE_JSON>>

\* A project with local sources, three installed packages (one scoped), a
\* package installed in a parent directory, and the global installation.
\* No directory holds two names that differ only in letter case.
FilesA ==
  { <<sP, sA, fB>>, <<sP, sA, fC>>, <<sP, sA, fX>>, <<sP, fD>>,
    <<sP, sXnm, fB>>,
    PkgLib, <<sP, NODE_MODULES, sLib, sX, fY>>, <<sP, NODE_MODULES, sLib, fL>>,
    PkgOlib, <<sP, NODE_MODULES, sOlib, fZ>>,
    PkgScoped, <<sP, NODE_MODULES, sScope, sLib, sX, fY>>,
    PkgUp, <<NODE_MODULES, sU, fZ>>,
    PkgBuidler, <<sG, NODE_MODULES>> \o Segs(BUIDLER) \o <<fC>> }

VersionsA ==
  (PkgLib :> V123) @@ (PkgOlib :> V2) @@ (PkgScoped :> V3) @@ (PkgUp :> V2) @@
  (PkgBuidler :> V3)

\* The same project with a local directory named like an installed package
\* and a package whose package.json has no "version" field.
FilesB == FilesA \cup { <<sP, sLib, sX, fY>> }

VersionsB == [VersionsA EXCEPT ![PkgOlib] = Undefined]

Layouts == { [files |-> FilesA, versions |-> VersionsA],
             [files |-> FilesB, versions |-> VersionsB] }

P2(x, y) == x \o Sl \o y
P3(x, y, z) == x \o Sl \o y \o Sl \o z
P4(w, x, y, z) == w \o Sl \o x \o Sl \o y \o Sl \o z

SourceNames ==
  { P2(sA, fB), P2(sA, fC), P2(sA, fX), P2(sA, fx), P2(sA, fM), fD, fM, sA, sA \o Sl,
    P2(sXnm, fB),
    P3(sLib, sX, fY), P2(sLib, fL), P2(sLib, fl), P2(sLib, fM), P4(sLib, sX, fY, fZ),
    P2(sOlib, fZ), P2(sNolib, fZ), P2(sU, fZ),
    P4(sScope, sLib, sX, fY), P2(sScope, fZ), P2(BUIDLER, fC),
    P4(NODE_MODULES, sLib, sX, fY),
    Sl \o P2(sA, fB), P3(Dot, sA, fB), P3(DotDot, sA, fB),
    sA \o Bs \o fB, P4(sA, DotDot, sA, fB), sA \o Sl \o Sl \o fB }

ImportTails ==
  { fB, fC, fM, fx, fY, P2(sA, fB), P3(sP, sA, fB),
    P3(sLib, sX, fY), P2(sLib, fM), P2(sLib, fl), P2(sOlib, fZ), P2(sU, fZ),
    P4(sScope, sLib, sX, fY),
    P4(NODE_MODULES, sLib, sX, fY),
    P2(sXnm, fB),
    sXnm \o Sl \o P4(NODE_MODULES, sLib, sX, fY) }

RECURSIVE Ups(_)
Ups(n) == IF n = 0 THEN <<>> ELSE DotDot \o Sl \o Ups(n - 1)

ImportPrefixes == { <<>>, Dot \o Sl } \cup { Ups(n) : n \in 1..MaxUp }

HTTP == <<"h", "t", "t", "p">>
SchemeSep == <<":", "/", "/">>

Imports ==
  { pre \o tail : pre \in ImportPrefixes, tail \in ImportTails } \cup
  { HTTP \o SchemeSep \o fB, SchemeSep \o fB, <<"1">> \o SchemeSep \o fB,
    Dot \o Sl \o sA \o SchemeSep \o fB, Dot \o Sl \o SchemeSep \o fB,
    sA \o Bs \o fB, Dot \o Sl \o sA \o Bs \o fB,
    Sl \o P3(sP, sA, fB) }

\* every string of 1..n characters over the alphabet
RECURSIVE Strings(_, _)
Strings(alphabet, n) ==
  IF n = 0 THEN {<<>>}
  ELSE LET shorter == Strings(alphabet, n - 1)
       IN shorter \cup {Append(w, c) : w \in shorter, c \in alphabet}

ShortNames == Strings({"/", ".", "\\", "a"}, MaxNameLen)

----------------------------------------------------------------------------
\* State machine

Init ==
  /\ \E layout \in Layouts : files = layout.files /\ versions = layout.versions
  /\ caseInsensitive \in BOOLEAN
  /\ held = NoFile
  /\ last = [op |-> "none", status |-> "idle"]

Keep(out) == IF out.tag = "file" THEN out.file ELSE held

\* The caller invokes resolveSourceName: the returned promise is pending.
CallResolveSourceName(sourceName) ==
  /\ last.status # "pending"
  /\ last' = [op |-> "resolveSourceName", status |-> "pending",
              sourceName |-> sourceName]
  /\ UNCHANGED <<files, versions, caseInsensitive, held>>

\* The caller invokes resolveImport on the file it holds.
CallResolveImport(imported) ==
  /\ last.status # "pending"
  /\ held # NoFile
  /\ last' = [op |-> "resolveImport", status |-> "pending",
              from |-> held, imported |-> imported]
  /\ UNCHANGED <<files, versions, caseInsensitive, held>>

\* the promise of a public method settles with r; the caller keeps a returned
\* file
Settle(r) ==
  /\ last' = [f \in (DOMAIN last) \cup (DOMAIN r) |->
                IF f = "status" THEN "settled"
                ELSE IF f \in DOMAIN r THEN r[f] ELSE last[f]]
  /\ held' = Keep(r.out)
  /\ UNCHANGED <<files, versions, caseInsensitive>>

\* resolveSourceName runs and its promise settles.
ResolveSourceName ==
  /\ last.op = "resolveSourceName" /\ last.status = "pending"
  /\ Settle(resolveSourceName(last.sourceName))

\* resolveImport runs and its promise settles.
ResolveImport ==
  /\ last.op = "resolveImport" /\ last.status = "pending"
  /\ Settle(resolveImport(last.from, last.imported))

Next ==
  \/ \E sourceName \in SourceNames : CallResolveSourceName(sourceName)
  \/ \E imported \in Imports : CallResolveImport(imported)
  \/ ResolveSourceName
  \/ ResolveImport

Spec == Init /\ [][Next]_vars

\* resolveSourceName on every short string over "/", ".", "\" and a letter
NextNames ==
  \/ \E sourceName \in ShortNames : CallResolveSourceName(sourceName)
  \/ ResolveSourceName

SpecNames == Init /\ [][NextNames]_vars

----------------------------------------------------------------------------
\* The private steps of a resolution applied on their own: the casing check
\* against the project root or the dependency directory, and the local and
\* library resolvers on a validated source name whatever the classifier says
\* (what a resolution meets when the tree changes under it).

ValidNames ==
  {n \in SourceNames :
     /\ ~isAbsolute(n)
     /\ ~StartsWith(n, Dot)
     /\ slash(n) = n
     /\ _normalizePath(n) = n}

FromDir(isLibrary) ==
  IF isLibrary THEN projectRoot \o Sl \o NODE_MODULES ELSE projectRoot

CallPrivate(op, sourceName, isLibrary) ==
  /\ last.status # "pending"
  /\ last' = [op |-> op, status |-> "pending", sourceName |-> sourceName,
              fromDir |-> FromDir(isLibrary), isLibrary |-> isLibrary]
  /\ UNCHANGED <<files, versions, caseInsensitive, held>>

ValidateSourceNameExistenceAndCasing ==
  /\ last.op = "_validateSourceNameExistenceAndCasing" /\ last.status = "pending"
  /\ Settle(_validateSourceNameExistenceAndCasing(last.sourceName, last.fromDir,
                                                          last.isLibrary))

ResolveLocalSourceName ==
  /\ last.op = "_resolveLocalSourceName" /\ last.status = "pending"
  /\ Settle(_resolveLocalSourceName(last.sourceName))

ResolveLibrarySourceName ==
  /\ last.op = "_resolveLibrarySourceName" /\ last.status = "pending"
  /\ Settle(_resolveLibrarySourceName(last.sourceName))

NextCasing ==
  \/ \E n \in ValidNames, isLibrary \in BOOLEAN :
       CallPrivate("_validateSourceNameExistenceAndCasing", n, isLibrary)
  \/ \E n \in ValidNames : CallPrivate("_resolveLocalSourceName", n, FALSE)
  \/ \E n \in ValidNames : CallPrivate("_resolveLibrarySourceName", n, TRUE)
  \/ ValidateSourceNameExistenceAndCasing
  \/ ResolveLocalSourceName
  \/ ResolveLibrarySourceName

SpecCasing == Init /\ [][NextCasing]_vars

----------------------------------------------------------------------------
\* Vocabulary of the properties

Settled(op) == last.status = "settled" /\ last.op = op
Failed(descriptor) == last.out.tag = "error" /\ last.out.error = descriptor

HasBackslash(s) == \E i \in 1..Len(s) : s[i] = "\\"
HasSegment(p, seg) == \E i \in 1..Len(Split(p)) : Split(p)[i] = seg

\* the part of a path after its first segment equal to seg
AfterSegment(p, seg) ==
  LET segs == Split(p)
      i == MinOf({k \in 1..Len(segs) : segs[k] = seg})
  IN JoinSegs(SubSeq(segs, i + 1, Len(segs)))

\* an import string that is no URI, has no backslash and is not absolute
PlainImport(imported) ==
  /\ ~Includes(imported, SchemeSep)
  /\ ~HasBackslash(imported)
  /\ ~isAbsolute(imported)

\* canonical(join(dirname(from.sourceName), imported))
Canonical(from, imported) == _normalizePath(join(dirname(from.globalName), imported))

----------------------------------------------------------------------------
\* C1: in resolveImport, whenever resolving the translated source name fails
\* with FILE_NOT_FOUND or LIBRARY_FILE_NOT_FOUND the call fails with
\* IMPORTED_FILE_NOT_FOUND {imported, from}, and whenever it fails with a
\* wrong-casing error the call fails with INVALID_IMPORT_WRONG_CASING
\* {imported, from}, for relative and non-relative imports alike.
C1_ImportFailuresAreRewrapped ==
  (Settled("resolveImport") /\ last.inner.tag = "error") =>
    /\ last.inner.error \in {"FILE_NOT_FOUND", "LIBRARY_FILE_NOT_FOUND"} =>
         last.out = BuidlerError("IMPORTED_FILE_NOT_FOUND",
                                 [imported |-> last.imported,
                                  from |-> last.from.globalName])
    /\ last.inner.error = "WRONG_SOURCE_NAME_CASING" =>
         last.out = BuidlerError("INVALID_IMPORT_WRONG_CASING",
                                 [imported |-> last.imported,
                                  from |-> last.from.globalName])

----------------------------------------------------------------------------
\* The four syntactic conditions on a source name, stated on its characters

IsAbsoluteName(n) == n # <<>> /\ n[1] = "/"
HasLeadingDot(n) == n # <<>> /\ n[1] = "."
\* an empty name, an empty segment before the last one, or a "." or ".."
\* segment
IsUnnormalized(n) ==
  \/ n = <<>>
  \/ \E i \in 1..Len(Split(n)) :
       \/ Split(n)[i] \in {Dot, DotDot}
       \/ Split(n)[i] = <<>> /\ i < Len(Split(n))

SyntacticErrors ==
  {"INVALID_SOURCE_NAME_ABSOLUTE_PATH", "INVALID_SOURCE_NAME_RELATIVE_PATH",
   "INVALID_SOURCE_NAME_BACKSLASHES", "INVALID_SOURCE_NOT_NORMALIZED"}

\* C2: resolveSourceName checks absolute path, leading ".", backslash and
\* normal form in that order and fails with the error of the first check the
\* name violates; a name violating any of them fails before any filesystem
\* operation, and a name violating none fails with none of the four errors.
C2_ChecksInOrderBeforeFilesystem ==
  Settled("resolveSourceName") =>
    LET n == last.sourceName
        expected ==
          IF IsAbsoluteName(n) THEN "INVALID_SOURCE_NAME_ABSOLUTE_PATH"
          ELSE IF HasLeadingDot(n) THEN "INVALID_SOURCE_NAME_RELATIVE_PATH"
          ELSE IF HasBackslash(n) THEN "INVALID_SOURCE_NAME_BACKSLASHES"
          ELSE IF IsUnnormalized(n) THEN "INVALID_SOURCE_NOT_NORMALIZED"
          ELSE "none"
    IN IF expected = "none"
       THEN last.out.tag = "error" => last.out.error \notin SyntacticErrors
       ELSE /\ last.out = BuidlerError(expected, [name |-> n])
            /\ last.io = <<>>

\* a name with a leading "." that also holds a backslash and is not in normal
\* form is rejected as a relative path
C2_Witness ==
  /\ Settled("resolveSourceName")
  /\ last.sourceName = <<".", "\\", "/">>
  /\ Failed("INVALID_SOURCE_NAME_RELATIVE_PATH")
  /\ last.io = <<>>

----------------------------------------------------------------------------
\* C3: for every project-relative path p that is not absolute, has no
\* leading ".", no backslash, no "." or ".." or empty segment and no segment
\* naming the dependency directory, and that names a file existing under the
\* project root with exactly that casing, resolveSourceName(p) returns a
\* ResolvedFile with sourceName p, no library and absolutePath projectRoot/p.
C3_ValidLocalPathResolves ==
  Settled("resolveSourceName") =>
    LET p == last.sourceName
    IN ( /\ ~IsAbsoluteName(p) /\ ~HasLeadingDot(p) /\ ~HasBackslash(p)
         /\ ~IsUnnormalized(p)
         /\ ~HasSegment(p, NODE_MODULES)
         /\ Segs(projectRoot) \o Split(p) \in files )
       => last.out = Returned([globalName |-> p,
                               absolutePath |-> projectRoot \o Sl \o p,
                               library |-> {}])

\* C4: for every package installed in the project's dependency directory
\* whose package.json declares version v, and every file of it that no local
\* path shadows, resolveSourceName(<package>/<file>) returns a ResolvedFile
\* with library {name: package, version: v} and absolutePath inside the
\* package directory, whose getVersionedName() is sourceName + "@v" + v; and
\* getVersionedName() of a file without library is its sourceName.
C4_InstalledPackageFileResolves ==
  Settled("resolveSourceName") =>
    /\ \A pkg \in DOMAIN versions :
         LET n == last.sourceName
             nm == Segs(FromDir(TRUE))
             dir == SubSeq(pkg, 1, Len(pkg) - 1)
             lib == JoinSegs(SubSeq(dir, Len(nm) + 1, Len(dir)))
             target == nm \o Split(n)
         IN ( /\ pkg \in files /\ IsPrefix(nm, dir) /\ versions[pkg] # Undefined
              /\ target \in files /\ IsPrefix(dir, target)
              /\ ~pathExists(join(projectRoot, n)) )
            => /\ last.out = Returned([globalName |-> n,
                                       absolutePath |-> Sl \o JoinSegs(target),
                                       library |-> {[name |-> lib,
                                                     version |-> versions[pkg]]}])
               /\ getVersionedName(last.out.file) = n \o <<"@", "v">> \o versions[pkg]
    /\ (last.out.tag = "file" /\ last.out.file.library = {}) =>
         getVersionedName(last.out.file) = last.out.file.globalName

\* C5 as stated: every import string containing "://" fails with
\* INVALID_IMPORT_PROTOCOL and no filesystem operation is performed.
C5_AnySchemeSeparatorRejected ==
  (Settled("resolveImport") /\ Includes(last.imported, SchemeSep)) =>
    /\ Failed("INVALID_IMPORT_PROTOCOL")
    /\ last.io = <<>>

LetterBeforeSeparator(s) ==
  \E i \in 1..Len(s) : s[i] \in Letters /\ StartsWith(Substr(s, i), SchemeSep)

\* C5: every import string in which a letter is directly followed by "://"
\* fails with INVALID_IMPORT_PROTOCOL {from, imported} before any source name
\* is resolved or any filesystem operation performed; an import string
\* without such a letter is never rejected as a protocol.
C5_LetterSchemeRejected ==
  Settled("resolveImport") =>
    IF LetterBeforeSeparator(last.imported)
    THEN /\ Failed("INVALID_IMPORT_PROTOCOL")
         /\ last.out.args.from = last.from.globalName
         /\ last.out.args.imported = last.imported
         /\ last.inner = NoCall
         /\ last.io = <<>>
    ELSE ~Failed("INVALID_IMPORT_PROTOCOL")

\* a relative import whose scheme sits in the middle of the string
C5_Witness ==
  /\ Settled("resolveImport")
  /\ last.imported = Dot \o Sl \o sA \o SchemeSep \o fB
  /\ Failed("INVALID_IMPORT_PROTOCOL")
  /\ last.io = <<>>

\* C6: a relative import in a library file whose canonical target is a file
\* of the dependency directory outside the directory of the owning library
\* fails with ILLEGAL_IMPORT.
C6_LibraryCannotLeaveItsTree ==
  ( /\ Settled("resolveImport")
    /\ last.from.library # {}
    /\ _isRelativeImport(last.imported)
    /\ PlainImport(last.imported) )
  => LET library == (CHOOSE l \in last.from.library : TRUE).name
         target == Canonical(last.from, last.imported)
     IN ( /\ ~StartsWith(target, library \o Sl)
          /\ Segs(FromDir(TRUE)) \o Split(target) \in files )
        => Failed("ILLEGAL_IMPORT")

\* C7: for a relative import from a local file whose canonical target has a
\* segment naming the dependency directory, the source name resolved is the
\* part of the target after that segment.
C7_TunnellingImportBecomesLibraryName ==
  ( /\ Settled("resolveImport")
    /\ last.from.library = {}
    /\ _isRelativeImport(last.imported)
    /\ PlainImport(last.imported) )
  => LET target == Canonical(last.from, last.imported)
     IN HasSegment(target, NODE_MODULES)
          => last.sourceName = AfterSegment(target, NODE_MODULES)

\* C8: for a relative import from a local file whose canonical target has no
\* segment naming the dependency directory, the source name resolved is the
\* canonical target, and when the target starts with "../" the call fails
\* with INVALID_IMPORT_OUTSIDE_OF_PROJECT {from, imported}.
C8_RelativeImportFromLocalFile ==
  ( /\ Settled("resolveImport")
    /\ last.from.library = {}
    /\ _isRelativeImport(last.imported)
    /\ PlainImport(last.imported) )
  => LET target == Canonical(last.from, last.imported)
     IN ~HasSegment(target, NODE_MODULES)
          => IF StartsWith(target, DotDot \o Sl)
             THEN last.out = BuidlerError("INVALID_IMPORT_OUTSIDE_OF_PROJECT",
                                          [from |-> last.from.globalName,
                                           imported |-> last.imported])
             ELSE last.sourceName = target

----------------------------------------------------------------------------
\* The casing check stated on the directory tree

\* the names below dir that equal segs when letter case is ignored
CaseBlindMatches(dir, segs) ==
  {e \in {SubSeq(f, Len(dir) + 1, Len(dir) + Len(segs)) :
            f \in {g \in files : IsPrefix(dir, g) /\ Len(g) >= Len(dir) + Len(segs)}} :
     \A i \in 1..Len(segs) : ToLowerCase(e[i]) = ToLowerCase(segs[i])}

\* a proper prefix of segs names, when letter case is ignored, a regular file
BlockedByFile(dir, segs) ==
  \E f \in files :
    /\ IsPrefix(dir, f)
    /\ Len(f) > Len(dir) /\ Len(f) < Len(dir) + Len(segs)
    /\ \A i \in 1..(Len(f) - Len(dir)) :
         ToLowerCase(f[Len(dir) + i]) = ToLowerCase(segs[i])

Loaded == \E i \in 1..Len(last.io) : last.io[i] = "readFile"

\* a file or directory of exactly this name and casing exists
OnDisk(path) == \E f \in files : IsPrefix(path, f)

Directories == UNION {{SubSeq(f, 1, k) : k \in 0..(Len(f) - 1)} : f \in files}

CasingErrors == {"FILE_NOT_FOUND", "LIBRARY_FILE_NOT_FOUND", "WRONG_SOURCE_NAME_CASING"}

\* C9 as stated: the casing check succeeds or fails with
\* WRONG_SOURCE_NAME_CASING, FILE_NOT_FOUND or LIBRARY_FILE_NOT_FOUND, and
\* has no other outcome.
C9_ExactlyThreeOutcomes ==
  Settled("_validateSourceNameExistenceAndCasing") =>
    \/ last.out = Ok
    \/ last.out.tag = "error" /\ last.out.error \in CasingErrors

\* C9: the casing check of a source name against a search directory succeeds
\* when the on-disk path has the requested casing; fails with
\* WRONG_SOURCE_NAME_CASING {incorrect: requested, correct: actual} when a
\* path matches only with another casing; when nothing matches even without
\* regard to case, fails with FILE_NOT_FOUND against the project root and
\* LIBRARY_FILE_NOT_FOUND against a library tree, except that a lookup which
\* runs into a regular file where a directory is needed lets that raw error
\* through unchanged.  No file is loaded unless the check succeeded.
C9_CasingCheckOutcomes ==
  /\ Settled("_validateSourceNameExistenceAndCasing") =>
       LET n == last.sourceName
           dir == Segs(last.fromDir)
           found == CaseBlindMatches(dir, Segs(n))
       IN /\ last.io = <<"trueCasePath">>
          /\ IF found # {}
             THEN LET actual == JoinSegs(CHOOSE e \in found : TRUE)
                  IN IF actual = n THEN last.out = Ok
                     ELSE last.out = BuidlerError("WRONG_SOURCE_NAME_CASING",
                                                  [incorrect |-> n, correct |-> actual])
             ELSE IF BlockedByFile(dir, Segs(n)) THEN last.out = IoError("ENOTDIR")
             ELSE last.out = BuidlerError(IF last.isLibrary THEN "LIBRARY_FILE_NOT_FOUND"
                                          ELSE "FILE_NOT_FOUND",
                                          [file |-> n])
  /\ (Settled("_resolveLocalSourceName") /\ Loaded) =>
       OnDisk(Segs(projectRoot) \o Split(last.sourceName))
  /\ (Settled("_resolveLibrarySourceName") /\ Loaded) =>
       \E dir \in Directories : OnDisk(dir \o Split(last.sourceName))
  /\ ( /\ last.status = "settled"
       /\ last.op \in {"_resolveLocalSourceName", "_resolveLibrarySourceName"}
       /\ last.out.tag = "error" /\ last.out.error \in CasingErrors ) => ~Loaded

\* a/X.sol is on disk and a/x.sol is requested against the project root
C9_Witness ==
  /\ Settled("_validateSourceNameExistenceAndCasing")
  /\ ~last.isLibrary
  /\ last.out = BuidlerError("WRONG_SOURCE_NAME_CASING",
                             [incorrect |-> P2(sA, fx), correct |-> P2(sA, fX)])

\* C10: a ResolvedFile returned by resolveSourceName or resolveImport has a
\* library attached exactly when it was resolved through the library path,
\* and a file without library has absolutePath projectRoot/sourceName.
C10_LibraryIffLibraryPath ==
  ( /\ last.status = "settled"
    /\ last.op \in {"resolveSourceName", "resolveImport"}
    /\ last.out.tag = "file" )
  => LET f == last.out.file
     IN /\ (f.library # {}) <=> (\E i \in 1..Len(last.io) : last.io[i] = "require.resolve")
        /\ f.library = {} => f.absolutePath = projectRoot \o Sl \o f.globalName

----------------------------------------------------------------------------
\* The name a call hands to resolveSourceName: its argument, or the source
\* name resolveImport translated the import to
NameResolved == last.sourceName

ViolatesNameRules(n) ==
  IsAbsoluteName(n) \/ HasLeadingDot(n) \/ HasBackslash(n) \/ IsUnnormalized(n)

ReturnedFile ==
  /\ last.status = "settled"
  /\ last.op \in {"resolveSourceName", "resolveImport"}
  /\ last.out.tag = "file"

\* C11: after any sequence of resolveSourceName and resolveImport calls, each
\* import made from a file an earlier call returned, every ResolvedFile
\* returned has a sourceName that is not absolute, has no leading ".", holds
\* no backslash and equals its canonical form; it is the very name that was
\* handed to resolveSourceName, and a call of resolveSourceName on a name
\* breaking one of the four rules fails with one of the four syntactic
\* errors; the held importer obeys the same rules.
C11_ReturnedSourceNamesAreCanonical ==
  /\ ReturnedFile =>
       /\ ~ViolatesNameRules(last.out.file.globalName)
       /\ _normalizePath(last.out.file.globalName) = last.out.file.globalName
       /\ last.out.file.globalName = NameResolved
  /\ (Settled("resolveSourceName") /\ ViolatesNameRules(last.sourceName)) =>
       /\ last.out.tag = "error"
       /\ last.out.error \in SyntacticErrors
  /\ held # NoFile => ~ViolatesNameRules(held.globalName)

\* a/c.sol, returned by an earlier call, imports "./b.sol" and a/b.sol is
\* returned
C11_Witness ==
  /\ Settled("resolveImport")
  /\ last.from.globalName = P2(sA, fC)
  /\ last.imported = Dot \o Sl \o fB
  /\ last.out.tag = "file"
  /\ last.out.file.globalName = P2(sA, fB)

\* C12: whenever the canonical join of the importer's directory and a
\* relative import starts with "../", resolveImport fails, with
\* INVALID_IMPORT_OUTSIDE_OF_PROJECT for an importer without library and with
\* ILLEGAL_IMPORT for a library file, and no source name is resolved.
C12_UpwardEscapeAlwaysFails ==
  ( /\ Settled("resolveImport")
    /\ _isRelativeImport(last.imported)
    /\ PlainImport(last.imported)
    /\ StartsWith(Canonical(last.from, last.imported), DotDot \o Sl) )
  => /\ Failed(IF last.from.library = {} THEN "INVALID_IMPORT_OUTSIDE_OF_PROJECT"
               ELSE "ILLEGAL_IMPORT")
     /\ last.inner = NoCall
     /\ last.io = <<>>

\* the first path segment of a name, or its first two segments when the name
\* starts with "@"
LeadingSegments(n) ==
  LET segs == Split(n)
  IN IF StartsWith(n, At) /\ Len(segs) >= 2
     THEN segs[1] \o Sl \o segs[2]
     ELSE segs[1]

\* package.json of the library is a file in the dependency directory of the
\* project root or of one of its parent directories
Located(lib) ==
  \E k \in 0..Len(Segs(projectRoot)) :
    Stat(Sl \o JoinSegs(SubSeq(Segs(projectRoot), 1, k) \o <<NODE_MODULES, lib, PACKAGE_JSON>>))
      = "file"

TookLibraryPath == \E i \in 1..Len(last.io) : last.io[i] = "require.resolve"

\* C13: for every validated source name not classified as local, the library
\* looked up is the first path segment of the name, or its first two
\* segments when the name starts with "@"; when that package cannot be
\* located from the project root the call fails with LIBRARY_NOT_INSTALLED
\* carrying exactly that library name, except that "@nomiclabs/buidler"
\* never fails with LIBRARY_NOT_INSTALLED.
C13_LibraryNameIsLeadingSegments ==
  ( /\ Settled("resolveSourceName")
    /\ ~ViolatesNameRules(last.sourceName)
    /\ TookLibraryPath )
  => LET lib == LeadingSegments(last.sourceName)
     IN /\ (~Located(lib) /\ lib # BUIDLER) =>
             last.out = BuidlerError("LIBRARY_NOT_INSTALLED", [library |-> lib])
        /\ Failed("LIBRARY_NOT_INSTALLED") => last.out.args.library = lib
        /\ lib = BUIDLER => ~Failed("LIBRARY_NOT_INSTALLED")

====
